---- MODULE Spec2Model ----
(***************************************************************************)
(* Speech-generation backend: the session store (session_service.py), the  *)
(* speech-generation engine and the batch coordinator (tts_service.py) and *)
(* the request handlers that drive them (main.py).                         *)
(*                                                                         *)
(* Strings are sequences of string tokens, so that concatenation, the      *)
(* replacement of blanks and the "_" separators of file names are          *)
(* computed, not assumed.  Python's None is the empty tuple.               *)
(***************************************************************************)
EXTENDS Integers, Sequences, FiniteSets, TLC

\* ------------------------------------------------------------------ bounds
\* Clock ticks the model lets pass (datetime.now() is read from this clock).
\* A request takes at least one tick, so this also bounds the requests handled.
MaxNow == 4
\* Clock ticks per second: the resolution strftime("%H%M%S") truncates to.
TicksPerSecond == 2
\* Longest voices_tested / generated_files list update_session may extend.
MaxList == 2
\* Longest stream of chunks a generation is fed.
MaxChunks == 2
\* Requests handled in the runs that feed every stream (SpecEngine, SpecDescriptor).
MaxEngineNow == 2
\* Requests handled in the runs of the session store's operations (SpecStore).
MaxStoreNow == 4
\* Most voices in a batch; SemaphoreLimit is 5.
MaxVoices == 6
\* Batches handled in the runs under a fair event loop (SpecGate).
MaxGateNow == 1
\* Requests handled in the runs of the audio listings (SpecAudio).
MaxAudioNow == 4
\* Longest payload the encoder is applied to (SpecWav).
MaxPayload == 3

None == <<>>

VARIABLES
    now,                 \* the wall clock, in ticks
    _active_session_id,  \* session_service._active_session_id
    dirs,                \* the session folders that exist under output/sessions
    session_json,        \* session id -> content of <folder>/session.json
    disk,                \* the .wav / .txt files that exist: <<folder, name>>
    favorites_json,      \* folder -> content of <folder>/favorites.json
    metadata_txt,        \* <<folder, name>> of a .txt file -> the lines it holds
    call,                \* the latest generate_speech call and how it ended
    batch,               \* the arguments of the generate_batch in progress, or None
    semaphore,           \* the value of the batch's asyncio.Semaphore
    waiters,             \* the tasks blocked in semaphore.acquire(), in order
    ready,               \* the event loop's queue of the batch's runnable tasks
    pc,                  \* where each generate_one task of the batch is
    results,             \* how each finished generate_one task ended
    batch_ret,           \* how the latest generate_batch ended
    reply                \* what the latest session request returned

vars == <<now, _active_session_id, dirs, session_json, disk, favorites_json, metadata_txt, call, batch, semaphore, waiters, ready, pc, results, batch_ret, reply>>

store_vars == <<_active_session_id, dirs, session_json, disk, favorites_json, metadata_txt>>
loop_vars == <<batch, semaphore, waiters, ready, pc, results>>

\* ------------------------------------------------------------- sequences
RECURSIVE Flatten(_)
\* "".join(parts) / b"".join(parts)
Flatten(parts) ==
    IF parts = <<>> THEN <<>> ELSE Head(parts) \o Flatten(Tail(parts))

Range(s) == {s[i] : i \in 1..Len(s)}

\* x in list
In(x, list) == \E i \in 1..Len(list) : list[i] = x

Count(x, list) == Cardinality({i \in 1..Len(list) : list[i] = x})

\* str.replace(" ", "_")
replace_blank(s) == [i \in 1..Len(s) |-> IF s[i] = " " THEN "_" ELSE s[i]]

\* -------------------------------------------------------------- the clock
\* strftime('%Y-%m-%d_%H%M%S'): the date, "_", and the time cut to the second.
strftime(t) == <<"date", "_", ToString(t \div TicksPerSecond)>>

\* timestamp.isoformat(): the full resolution of the clock.
isoformat(t) == <<"date", "T", ToString(t)>>

\* ---------------------------------------------------------- the file store
OUTPUT_DIR == <<"output">>
SESSIONS_DIR == OUTPUT_DIR \o <<"sessions">>

\* The state the functions below read and write, as one value.
World ==
    [dirs |-> dirs, session_json |-> session_json, disk |-> disk,
     favorites_json |-> favorites_json, metadata_txt |-> metadata_txt,
     active |-> _active_session_id]

Commit(w) ==
    /\ dirs' = w.dirs
    /\ session_json' = w.session_json
    /\ disk' = w.disk
    /\ favorites_json' = w.favorites_json
    /\ metadata_txt' = w.metadata_txt
    /\ _active_session_id' = w.active

\* Every function with an effect returns [ret |-> its result, w |-> the world after].

\* folder = SESSIONS_DIR / session_id; folder.mkdir(parents=True, exist_ok=True)
get_session_folder(w, session_id) ==
    LET folder == SESSIONS_DIR \o <<session_id>>
    IN  [ret |-> folder, w |-> [w EXCEPT !.dirs = @ \cup {folder}]]

\* Session(...): the fields of the pydantic model.
Session(id, created_at, name, persona_id, text_type, text_content, voices_tested, favorites, generated_files) ==
    [id |-> id, created_at |-> created_at, name |-> name,
     persona_id |-> persona_id, text_type |-> text_type,
     text_content |-> text_content, voices_tested |-> voices_tested,
     favorites |-> favorites, generated_files |-> generated_files]

\* json.dump(session.model_dump()) into <folder>/session.json, the folder made first.
save_session(w, session) ==
    LET f == get_session_folder(w, session.id)
    IN  [ret |-> None,
         w |-> [f.w EXCEPT !.session_json = (session.id :> session) @@ @]]

session_file_exists(w, session_id) == session_id \in DOMAIN w.session_json

\* Session(**json.load(f)) if session.json exists, else None.
get_session(w, session_id) ==
    IF session_file_exists(w, session_id)
    THEN w.session_json[session_id]
    ELSE None

\* create_session making the session the active one without saving its record.
create_session_unsaved(w, t, name, persona_id, text_type, text_content, voices, files) ==
    LET session_id == <<"session", "_">> \o strftime(t)
        f == get_session_folder(w, session_id)
        session == Session(session_id, isoformat(t), name, persona_id,
                           text_type, text_content, voices, <<>>, files)
    IN  [ret |-> session, w |-> [f.w EXCEPT !.active = session_id]]

\* create_session with the active session kept when there is one.
create_session_keeps_active(w, t, name, persona_id, text_type, text_content, voices, files) ==
    LET session_id == <<"session", "_">> \o strftime(t)
        f == get_session_folder(w, session_id)
        session == Session(session_id, isoformat(t), name, persona_id,
                           text_type, text_content, voices, <<>>, files)
        s == save_session(f.w, session)
    IN  [ret |-> session,
         w |-> [s.w EXCEPT !.active = IF w.active = None THEN session_id ELSE w.active]]

\* The id is "session_" + the timestamp at second resolution; the new session
\* becomes the active one.
create_session(w, t, name, persona_id, text_type, text_content, voices, files) ==
    LET session_id == <<"session", "_">> \o strftime(t)
        f == get_session_folder(w, session_id)
        session == Session(session_id, isoformat(t), name, persona_id,
                           text_type, text_content, voices, <<>>, files)
        s == save_session(f.w, session)
    IN  [ret |-> session, w |-> [s.w EXCEPT !.active = session_id]]

get_active_session_id(w) == w.active

\* set_active_session without the lookup of the session.
set_active_session_unchecked(w, session_id) ==
    [ret |-> get_session(w, session_id), w |-> [w EXCEPT !.active = session_id]]

\* The session if it exists, which then becomes the active one; else None.
set_active_session(w, session_id) ==
    IF session_file_exists(w, session_id)
    THEN [ret |-> get_session(w, session_id), w |-> [w EXCEPT !.active = session_id]]
    ELSE [ret |-> None, w |-> w]

\* add_file_to_session writing back lists that hold the new entries only.
add_file_to_session_overwrite(w, session_id, filename, voice) ==
    IF session_file_exists(w, session_id)
    THEN LET session == get_session(w, session_id)
             updated == [session EXCEPT !.generated_files = <<filename>>,
                                        !.voices_tested = <<voice>>]
         IN  [ret |-> updated, w |-> save_session(w, updated).w]
    ELSE [ret |-> None, w |-> w]

\* Append-if-absent of the file and of the voice, then save.
add_file_to_session(w, session_id, filename, voice) ==
    IF session_file_exists(w, session_id)
    THEN LET session == get_session(w, session_id)
             files == IF In(filename, session.generated_files)
                      THEN session.generated_files
                      ELSE Append(session.generated_files, filename)
             voices == IF In(voice, session.voices_tested)
                       THEN session.voices_tested
                       ELSE Append(session.voices_tested, voice)
             updated == [session EXCEPT !.generated_files = files,
                                        !.voices_tested = voices]
         IN  [ret |-> updated, w |-> save_session(w, updated).w]
    ELSE [ret |-> None, w |-> w]

\* update_favorites with the given list appended to the one on record.
update_favorites_merging(w, session_id, favorites) ==
    IF session_file_exists(w, session_id)
    THEN LET session == get_session(w, session_id)
             updated == [session EXCEPT !.favorites = @ \o favorites]
         IN  [ret |-> updated, w |-> save_session(w, updated).w]
    ELSE [ret |-> None, w |-> w]

\* update_favorites making the session the active one.
update_favorites_activating(w, session_id, favorites) ==
    IF session_file_exists(w, session_id)
    THEN LET session == get_session(w, session_id)
             updated == [session EXCEPT !.favorites = favorites]
         IN  [ret |-> updated,
              w |-> [save_session(w, updated).w EXCEPT !.active = session_id]]
    ELSE [ret |-> None, w |-> w]

\* update_favorites saving a record for an id that has none.
update_favorites_creating(w, session_id, favorites) ==
    LET session == IF session_file_exists(w, session_id)
                   THEN get_session(w, session_id)
                   ELSE Session(session_id, <<>>, <<>>, None, "demo", <<>>, <<>>, <<>>, <<>>)
        updated == [session EXCEPT !.favorites = favorites]
    IN  [ret |-> updated, w |-> save_session(w, updated).w]

\* session.favorites = favorites, then save; None for an unknown id.
update_favorites(w, session_id, favorites) ==
    IF session_file_exists(w, session_id)
    THEN LET session == get_session(w, session_id)
             updated == [session EXCEPT !.favorites = favorites]
         IN  [ret |-> updated, w |-> save_session(w, updated).w]
    ELSE [ret |-> None, w |-> w]

\* Folder names under output/sessions end in the second of their timestamp;
\* the fixed-width timestamps sort as strings the way their seconds sort.
\* Any other name sorts before them ("session_..." is the greater string).
second(name) ==
    IF \E n \in 0..MaxNow : ToString(n) = name[Len(name)]
    THEN CHOOSE n \in 0..MaxNow : ToString(n) = name[Len(name)]
    ELSE -1

RECURSIVE sorted_reverse(_)
\* sorted(names, reverse=True)
sorted_reverse(names) ==
    IF names = {} THEN <<>>
    ELSE LET last == CHOOSE a \in names : \A b \in names : second(b) <= second(a)
         IN  <<last>> \o sorted_reverse(names \ {last})

\* The folders of SESSIONS_DIR, newest name first, that hold a session.json.
list_sessions(w) ==
    LET folders == {folder[Len(folder)] : folder \in w.dirs}
        names == sorted_reverse(folders)
        with_file == SelectSeq(names, LAMBDA name : session_file_exists(w, name))
    IN  [i \in 1..Len(with_file) |-> get_session(w, with_file[i])]

\* ------------------------------------------------------- the persona catalog
\* dict.get(key, default)
get(d, key, default) == IF key \in DOMAIN d THEN d[key] ELSE default

\* data/personas.json as load_personas() returns it: persona id -> attributes.
\* One persona with tone instructions, one whose tone instructions are empty,
\* and one that has neither a name nor tone instructions.
load_personas ==
    (<<"busy_boss">> :> [name |-> <<"Busy", " ", "Boss">>,
                         tone_instructions |-> <<"Fast pace, annoyed tone.">>])
    @@ (<<"plain">> :> [name |-> <<"Plain">>, tone_instructions |-> <<>>])
    @@ (<<"bare">> :> [archetype |-> <<"Untitled">>])

\* data/custom_personas.json as load_custom_personas() returns it: one persona
\* a user made, marked as custom.
load_custom_personas ==
    <<"custom_busy_boss">> :> [name |-> <<"Busy", "_", "Boss">>,
                               tone_instructions |-> <<"Calm and slow.">>,
                               is_custom |-> <<"True">>]

\* Built-in personas updated with the custom ones.
get_all_personas == load_custom_personas @@ load_personas

\* --------------------------------------------------------- the WAV encoder
DefaultMime == <<(<<"audio/L", "16">>), (<<"rate=", "24000">>)>>

\* The numerals int() parses; on any other text int() raises ValueError.
Numerals == {"8", "16", "20", "24", "16000", "24000"}

int(text) ==
    CASE text = "8" -> 8
      [] text = "16" -> 16
      [] text = "20" -> 20
      [] text = "24" -> 24
      [] text = "16000" -> 16000
      [] text = "24000" -> 24000

RECURSIVE parse_params(_, _)
\* The loop over mime_type.split(";"): a parameter is <<prefix, rest>>; a
\* ValueError of int() leaves the default in place.
parse_params(params, acc) ==
    IF params = <<>> THEN acc
    ELSE LET param == Head(params)
             next == IF param[1] = "rate=" /\ param[2] \in Numerals
                     THEN [acc EXCEPT !.rate = int(param[2])]
                     ELSE IF param[1] = "audio/L" /\ param[2] \in Numerals
                     THEN [acc EXCEPT !.bits_per_sample = int(param[2])]
                     ELSE acc
         IN  parse_params(Tail(params), next)

parse_audio_mime_type(mime_type) ==
    parse_params(mime_type, [bits_per_sample |-> 16, rate |-> 24000])

\* convert_to_wav declaring the size of the whole output as the chunk size.
convert_to_wav_whole_size(audio_data, mime_type) ==
    LET parameters == parse_audio_mime_type(mime_type)
        bytes_per_sample == parameters.bits_per_sample \div 8
    IN  [riff |-> "RIFF", chunk_size |-> 44 + Len(audio_data), wave |-> "WAVE",
         fmt |-> "fmt ", fmt_size |-> 16, format |-> 1,
         num_channels |-> 1, sample_rate |-> parameters.rate,
         byte_rate |-> parameters.rate * bytes_per_sample,
         block_align |-> bytes_per_sample,
         bits_per_sample |-> parameters.bits_per_sample, data |-> "data",
         data_size |-> Len(audio_data), payload |-> audio_data]

convert_to_wav(audio_data, mime_type) ==
    LET parameters == parse_audio_mime_type(mime_type)
        bits_per_sample == parameters.bits_per_sample
        sample_rate == parameters.rate
        num_channels == 1
        data_size == Len(audio_data)
        bytes_per_sample == bits_per_sample \div 8
        block_align == num_channels * bytes_per_sample
        byte_rate == sample_rate * block_align
        chunk_size == 36 + data_size
    IN  [riff |-> "RIFF", chunk_size |-> chunk_size, wave |-> "WAVE",
         fmt |-> "fmt ", fmt_size |-> 16, format |-> 1,
         num_channels |-> num_channels, sample_rate |-> sample_rate,
         byte_rate |-> byte_rate, block_align |-> block_align,
         bits_per_sample |-> bits_per_sample, data |-> "data",
         data_size |-> data_size, payload |-> audio_data]

\* The widths in bytes of the fields of struct format "<4sI4s4sIHHIIHH4sI".
HeaderFormat == <<4, 4, 4, 4, 4, 2, 2, 4, 4, 2, 2, 4, 4>>

RECURSIVE calcsize(_)
\* struct.calcsize of a format without padding
calcsize(format) == IF format = <<>> THEN 0 ELSE Head(format) + calcsize(Tail(format))

\* len(header + audio_data)
wav_length(wav) == calcsize(HeaderFormat) + Len(wav.payload)

\* ------------------------------------------------------ the model's stream
\* A response chunk, by the shape the engine inspects: candidates is None, [] or
\* a list; its first candidate's content is None or an object; the content's
\* parts are None, [] or a list; the first part's inline_data is None or holds
\* data (bytes, possibly empty) and a mime type (possibly None).
Chunk(candidates, content, parts, inline_data, data, mime_type) ==
    [candidates |-> candidates, content |-> content, parts |-> parts,
     inline_data |-> inline_data, data |-> data, mime_type |-> mime_type]

AudioChunk(data, mime_type) == Chunk("list", "obj", "list", "obj", data, mime_type)

NoCandidates == Chunk("None", "None", "None", "None", <<>>, None)
EmptyCandidates == Chunk("[]", "None", "None", "None", <<>>, None)
NoContent == Chunk("list", "None", "None", "None", <<>>, None)
NoParts == Chunk("list", "obj", "None", "None", <<>>, None)
EmptyParts == Chunk("list", "obj", "[]", "None", <<>>, None)
NoInlineData == Chunk("list", "obj", "list", "None", <<>>, None)
EmptyData == AudioChunk(<<>>, None)

\* The chunks with no audio payload.
SilentChunks ==
    {NoCandidates, EmptyCandidates, NoContent, NoParts, EmptyParts,
     NoInlineData, EmptyData}

has_audio(chunk) ==
    /\ chunk.candidates = "list" /\ chunk.content = "obj"
    /\ chunk.parts = "list" /\ chunk.inline_data = "obj"
    /\ chunk.data # <<>>

\* An exception: its type and the message str(e) gives.
Exception(type, message) == [type |-> type, message |-> message]
str(e) == e.message

IndexError == Exception("IndexError", <<"list index out of range">>)

\* What the injected failure of a step raises.
Fault(name) == Exception("Exception", <<"failed: ", name>>)

\* audio_chunks.append(data) with the mime type of the latest chunk kept.
append_chunk_latest_mime(acc, chunk) ==
    [acc EXCEPT !.audio_chunks = Append(@, chunk.data),
                !.mime_type = IF chunk.mime_type # None THEN chunk.mime_type ELSE @]

\* audio_chunks.append(data) with the chunk put in front of the list.
append_chunk_in_front(acc, chunk) ==
    [acc EXCEPT !.audio_chunks = <<chunk.data>> \o @,
                !.mime_type = IF @ = None THEN chunk.mime_type ELSE @]

\* audio_chunks.append(part.inline_data.data); the mime type is taken while
\* none is held.
append_chunk(acc, chunk) ==
    [acc EXCEPT !.audio_chunks = Append(@, chunk.data),
                !.mime_type = IF @ = None THEN chunk.mime_type ELSE @]

RECURSIVE consume(_, _)
\* The for loop over the stream: acc holds audio_chunks, mime_type and the
\* exception that ended the loop, if any.
consume(chunks, acc) ==
    IF chunks = <<>> THEN acc
    ELSE LET chunk == Head(chunks)
         IN  IF chunk.candidates = "None" THEN consume(Tail(chunks), acc)
             ELSE IF chunk.candidates = "[]" THEN [acc EXCEPT !.exception = IndexError]
             ELSE IF chunk.content = "None" THEN consume(Tail(chunks), acc)
             ELSE IF chunk.parts = "None" THEN consume(Tail(chunks), acc)
             ELSE IF chunk.parts = "[]" THEN [acc EXCEPT !.exception = IndexError]
             ELSE IF chunk.inline_data = "obj" /\ chunk.data # <<>>
             THEN consume(Tail(chunks), append_chunk(acc, chunk))
             ELSE consume(Tail(chunks), acc)

\* ------------------------------------------------------------- the engine
\* GenerateRequest: voice, text, persona_id, model.
GenerateRequest(voice, text, persona_id, model) ==
    [voice |-> voice, text |-> text, persona_id |-> persona_id, model |-> model]

\* GenerateResponse(**kwargs): the model class keeps its declared fields and
\* ignores any other keyword.
ResponseFields == {"success", "file_path", "metadata_path", "duration_seconds", "error"}

GenerateResponse(kwargs) == [f \in ResponseFields |-> get(kwargs, f, None)]

\* The steps of a generation that the environment can make fail.
Faults ==
    {"credentials", "personas", "stream", "audio_open", "audio_write",
     "metadata_open", "metadata_write", "session_update"}

\* get_output_folder with the active session tried before the explicit id.
get_output_folder_active_first(w, session_id) ==
    IF get_active_session_id(w) # None
    THEN get_session_folder(w, get_active_session_id(w))
    ELSE IF session_id # None THEN get_session_folder(w, session_id)
    ELSE [ret |-> OUTPUT_DIR, w |-> w]

\* The explicit session's folder, else the active session's, else the legacy one.
get_output_folder(w, session_id) ==
    IF session_id # None THEN get_session_folder(w, session_id)
    ELSE IF get_active_session_id(w) # None
    THEN get_session_folder(w, get_active_session_id(w))
    ELSE [ret |-> OUTPUT_DIR, w |-> w]

\* The local variables of a generate_speech call, None until assigned.
NoLocals ==
    [prompt |-> None, persona_name |-> None, audio_chunks |-> None,
     mime_type |-> None, audio_data |-> None, wav_data |-> None,
     output_folder |-> None, base_name |-> None, active_session |-> None,
     wrote |-> {}]

\* How a call ends: by return (ret) or by an exception, with the world it leaves.
Return(w, ret, locals) ==
    [raised |-> FALSE, exception |-> None, ret |-> ret, w |-> w, locals |-> locals]

Raise(w, e, locals) ==
    [raised |-> TRUE, exception |-> e, ret |-> None, w |-> w, locals |-> locals]

\* A line "key: value" of the metadata file.
line(key, value) == <<key, ": ">> \o value

\* Lines 187-208: the lines of the metadata file.  The attributes of a persona
\* follow its name when the persona was found.
metadata_lines(request, persona_data, persona_name, timestamp) ==
    LET attribute(key) == line(key, get(persona_data, key, <<>>))
    IN  <<line("voice", request.voice),
          line("persona_id", IF request.persona_id # None THEN request.persona_id
                             ELSE <<"none">>),
          line("persona_name", persona_name)>>
        \o (IF DOMAIN persona_data # {}
            THEN <<attribute("local_name"), attribute("archetype"), attribute("traits"),
                   attribute("tone_instructions"), attribute("recommended_voice"),
                   line("is_custom", get(persona_data, "is_custom", <<"False">>))>>
            ELSE <<>>)
        \o <<line("model", request.model), line("text", request.text),
              line("generated_at", timestamp)>>

\* Lines 173-223: the files are written and the session updated.
write_artifact(w, t, request, session_id, env, locals, persona_data) ==
    LET o == get_output_folder(w, session_id)
        output_folder == o.ret
        timestamp == strftime(t)
        safe_persona_name == replace_blank(locals.persona_name)
        base_name == timestamp \o <<"_">> \o request.voice \o <<"_">> \o safe_persona_name
        audio_path == <<output_folder, base_name \o <<".wav">>>>
        metadata_path == <<output_folder, base_name \o <<".txt">>>>
        l1 == [locals EXCEPT !.output_folder = output_folder, !.base_name = base_name]
        w_audio == [o.w EXCEPT !.disk = @ \cup {audio_path}]
        l_audio == [l1 EXCEPT !.wrote = {audio_path}]
        w_open == [w_audio EXCEPT !.disk = @ \cup {metadata_path},
                                  !.metadata_txt = (metadata_path :> <<>>) @@ @]
        w_meta == [w_open EXCEPT !.metadata_txt =
                       (metadata_path :> metadata_lines(request, persona_data, locals.persona_name,
                                                        timestamp)) @@ @]
        l_meta == [l1 EXCEPT !.wrote = {audio_path, metadata_path}]
        active_session == IF session_id # None THEN session_id
                          ELSE get_active_session_id(w_meta)
        l_done == [l_meta EXCEPT !.active_session = active_session]
        w_done == IF active_session # None
                  THEN add_file_to_session(w_meta, active_session,
                                           base_name \o <<".wav">>, request.voice).w
                  ELSE w_meta
    IN  IF env.fault = "audio_open" THEN Raise(o.w, Fault(env.fault), l1)
        ELSE IF env.fault = "audio_write" THEN Raise(w_audio, Fault(env.fault), l_audio)
        ELSE IF env.fault = "metadata_open" THEN Raise(w_audio, Fault(env.fault), l_audio)
        ELSE IF env.fault = "metadata_write" THEN Raise(w_open, Fault(env.fault), l_meta)
        ELSE IF env.fault = "session_update" /\ active_session # None
        THEN Raise(w_meta, Fault(env.fault), l_done)
        ELSE Return(w_done,
                    GenerateResponse([success |-> TRUE,
                                      file_path |-> base_name \o <<".wav">>,
                                      metadata_path |-> base_name \o <<".txt">>,
                                      session_id |-> active_session]),
                    l_done)

\* The prompt with the tone instructions of a persona put in front of the text
\* whatever they are, even when they are empty.
build_prompt_always_template(request, personas) ==
    LET found == request.persona_id # None /\ request.persona_id \in DOMAIN personas
        persona_data == IF found THEN personas[request.persona_id] ELSE None
        tone == IF found THEN get(persona_data, "tone_instructions", <<>>) ELSE <<>>
    IN  [prompt |-> IF found
                    THEN <<"Read aloud in ">> \o tone \o <<"\n\n">> \o request.text
                    ELSE request.text,
         persona_data |-> persona_data,
         persona_name |-> IF found THEN get(persona_data, "name", request.persona_id)
                          ELSE <<"default">>]

\* Lines 107-117: the prompt sent to the model and the persona name the
\* artifact is labelled with.
build_prompt(request, personas) ==
    LET found == request.persona_id # None /\ request.persona_id \in DOMAIN personas
        persona_data == IF found THEN personas[request.persona_id] ELSE None
        persona_name == IF found THEN get(persona_data, "name", request.persona_id)
                        ELSE <<"default">>
        tone == IF found THEN get(persona_data, "tone_instructions", <<>>) ELSE <<>>
        prompt == IF found /\ tone # <<>>
                  THEN <<"Read aloud in ">> \o tone \o <<"\n\n">> \o request.text
                  ELSE request.text
    IN  [prompt |-> prompt, persona_data |-> persona_data, persona_name |-> persona_name]

\* The body of the try block, lines 104-223.
generate_speech_try(w, t, request, session_id, env) ==
    LET built == build_prompt(request, get_all_personas)
        prompt == built.prompt
        persona_name == built.persona_name
        l0 == [NoLocals EXCEPT !.prompt = prompt, !.persona_name = persona_name]
        loop == consume(env.stream, [audio_chunks |-> <<>>, mime_type |-> None, exception |-> None])
        l1 == [l0 EXCEPT !.audio_chunks = loop.audio_chunks, !.mime_type = loop.mime_type]
        audio_data == Flatten(loop.audio_chunks)
        wav_data == convert_to_wav(audio_data, IF loop.mime_type # None THEN loop.mime_type ELSE DefaultMime)
        l2 == [l1 EXCEPT !.audio_data = audio_data, !.wav_data = wav_data]
    IN  IF env.fault = "credentials" THEN Raise(w, Fault(env.fault), NoLocals)
        ELSE IF env.fault = "personas" THEN Raise(w, Fault(env.fault), NoLocals)
        ELSE IF loop.exception # None THEN Raise(w, loop.exception, l1)
        ELSE IF env.fault = "stream" THEN Raise(w, Fault(env.fault), l1)
        ELSE IF loop.audio_chunks = <<>>
        THEN Return(w, GenerateResponse([success |-> FALSE, error |-> <<"No audio data received">>]), l1)
        ELSE write_artifact(w, t, request, session_id, env, l2, built.persona_data)

\* generate_speech without its except clause.
generate_speech_no_except(w, t, request, session_id, env) ==
    generate_speech_try(w, t, request, session_id, env)

\* generate_speech: the try block, and except Exception turned into a failure result.
generate_speech(w, t, request, session_id, env) ==
    LET r == generate_speech_try(w, t, request, session_id, env)
    IN  IF r.raised
        THEN Return(r.w, GenerateResponse([success |-> FALSE, error |-> str(r.exception)]), r.locals)
        ELSE r

\* ------------------------------------------------------------ the handlers
\* The event loop runs one callback at a time.  gather() queues the batch's
\* tasks back to back, and a task that never suspends runs to its end in one
\* callback: from the first task's start to the last task's end no other
\* request handler runs.
LoopBusy ==
    /\ batch # None
    /\ \E i \in DOMAIN pc : pc[i] # "ready"
    /\ \E i \in DOMAIN pc : pc[i] # "done"

\* The record of a generate_speech call: its arguments and how it ended.
Call(task, request, session_id, env, r) ==
    [task |-> task, request |-> request, session_id |-> session_id, env |-> env,
     raised |-> r.raised, exception |-> r.exception, ret |-> r.ret,
     locals |-> r.locals]

\* call, batch_ret and reply hold a response in the state the request ends in,
\* and are cleared by the step after it.
NoCall ==
    [task |-> 0, request |-> None, session_id |-> None, env |-> None,
     raised |-> FALSE, exception |-> None, ret |-> None, locals |-> NoLocals]

NoReply == [op |-> "none", args |-> None, ret |-> None]

Reply(op, args, ret) == [op |-> op, args |-> args, ret |-> ret]

Delivered == call' = NoCall /\ batch_ret' = None /\ reply' = NoReply

\* Time passes.
Tick ==
    /\ now < MaxNow
    /\ now' = now + 1
    /\ Delivered
    /\ UNCHANGED <<store_vars, loop_vars>>

\* A request handler reads the clock at `now` and takes a tick of time.
Handled ==
    /\ now < MaxNow
    /\ now' = now + 1

\* POST /generate
generate(request, env) ==
    /\ ~LoopBusy
    /\ Handled
    /\ LET session_id == get_active_session_id(World)
           r == generate_speech(World, now, request, session_id, env)
       IN  /\ Commit(r.w)
           /\ call' = Call(0, request, session_id, env, r)
    /\ batch_ret' = None
    /\ reply' = NoReply
    /\ UNCHANGED loop_vars

\* POST /sessions
create_new_session(name, persona_id, text_type, text_content) ==
    /\ ~LoopBusy
    /\ Handled
    /\ LET c == create_session(World, now, name, persona_id, text_type, text_content, <<>>, <<>>)
       IN  /\ Commit(c.w)
           /\ reply' = Reply("create_session", <<name, persona_id, text_type, text_content>>, c.ret)
    /\ call' = NoCall
    /\ batch_ret' = None
    /\ UNCHANGED loop_vars

\* POST /sessions/active/{session_id}
activate_session(session_id) ==
    /\ ~LoopBusy
    /\ Handled
    /\ LET a == set_active_session(World, session_id)
       IN  /\ Commit(a.w)
           /\ reply' = Reply("set_active_session", <<session_id>>, a.ret)
    /\ call' = NoCall
    /\ batch_ret' = None
    /\ UNCHANGED loop_vars

\* PATCH /sessions/{session_id}: the lists are extended as given.
update_session(session_id, voices, files) ==
    /\ ~LoopBusy
    /\ Handled
    /\ session_file_exists(World, session_id)
    /\ LET session == get_session(World, session_id)
           updated == [session EXCEPT !.voices_tested = @ \o voices,
                                      !.generated_files = @ \o files]
       IN  /\ Len(updated.voices_tested) <= MaxList
           /\ Len(updated.generated_files) <= MaxList
           /\ Commit(save_session(World, updated).w)
           /\ reply' = Reply("update_session", <<session_id, voices, files>>, updated)
    /\ call' = NoCall
    /\ batch_ret' = None
    /\ UNCHANGED loop_vars

\* PATCH /sessions/{session_id}/favorites
update_session_favorites(session_id, favorites) ==
    /\ ~LoopBusy
    /\ Handled
    /\ LET u == update_favorites(World, session_id, favorites)
       IN  /\ Commit(u.w)
           /\ reply' = Reply("update_favorites", <<session_id, favorites>>, u.ret)
    /\ call' = NoCall
    /\ batch_ret' = None
    /\ UNCHANGED loop_vars

\* add_file_to_session called on its own, as a client of session_service does.
call_add_file_to_session(session_id, filename, voice) ==
    /\ ~LoopBusy
    /\ Handled
    /\ LET a == add_file_to_session(World, session_id, filename, voice)
       IN  /\ Commit(a.w)
           /\ reply' = Reply("add_file_to_session", <<session_id, filename, voice>>, a.ret)
    /\ call' = NoCall
    /\ batch_ret' = None
    /\ UNCHANGED loop_vars

\* A handler that only reads the store.
Lookup(op, args, ret) ==
    /\ ~LoopBusy
    /\ Handled
    /\ reply' = Reply(op, args, ret)
    /\ call' = NoCall
    /\ batch_ret' = None
    /\ UNCHANGED <<store_vars, loop_vars>>

\* GET /sessions/{session_id}
get_session_by_id(session_id) ==
    Lookup("get_session", <<session_id>>, get_session(World, session_id))

\* GET /sessions
get_sessions ==
    Lookup("list_sessions", <<>>,
           [sessions |-> list_sessions(World),
            active_session_id |-> get_active_session_id(World)])

\* GET /sessions/active
get_active_session ==
    LET active == get_active_session_id(World)
    IN  Lookup("get_active_session", <<>>,
               IF active # None
               THEN [session |-> get_session(World, active), id |-> active]
               ELSE [session |-> None, id |-> None])

\* get_audio_folder answering with the legacy folder whatever session is active.
get_audio_folder_legacy(w, session_id) ==
    IF session_id # None THEN get_session_folder(w, session_id)
    ELSE [ret |-> OUTPUT_DIR, w |-> w]

\* get_audio_folder: the given session's folder, else the active session's,
\* else the legacy folder.
get_audio_folder(w, session_id) ==
    IF session_id # None THEN get_session_folder(w, session_id)
    ELSE IF get_active_session_id(w) # None
    THEN get_session_folder(w, get_active_session_id(w))
    ELSE [ret |-> OUTPUT_DIR, w |-> w]

\* json.load of <folder>/favorites.json, [] when there is no such file.
load_favorites(w, folder) == get(w.favorites_json, folder, <<>>)

\* POST /favorites/{filename}: append-if-absent to the folder's favorites.json.
add_favorite(filename) ==
    /\ ~LoopBusy
    /\ Handled
    /\ LET f == get_audio_folder(World, None)
           favorites == load_favorites(f.w, f.ret)
           added == Append(favorites, filename)
       IN  IF ~In(filename, favorites)
           THEN /\ Commit([f.w EXCEPT !.favorites_json = (f.ret :> added) @@ @])
                /\ reply' = Reply("add_favorite", <<filename>>, added)
           ELSE /\ Commit(f.w)
                /\ reply' = Reply("add_favorite", <<filename>>, favorites)
    /\ call' = NoCall
    /\ batch_ret' = None
    /\ UNCHANGED loop_vars

\* list.remove(x): the list without its first x.
remove(list, x) ==
    LET first == CHOOSE i \in 1..Len(list) : list[i] = x /\ \A j \in 1..(i - 1) : list[j] # x
    IN  SubSeq(list, 1, first - 1) \o SubSeq(list, first + 1, Len(list))

\* DELETE /favorites/{filename}
remove_favorite(filename) ==
    /\ ~LoopBusy
    /\ Handled
    /\ LET f == get_audio_folder(World, None)
           favorites == load_favorites(f.w, f.ret)
       IN  IF In(filename, favorites)
           THEN /\ Commit([f.w EXCEPT !.favorites_json = (f.ret :> remove(favorites, filename)) @@ @])
                /\ reply' = Reply("remove_favorite", <<filename>>, remove(favorites, filename))
           ELSE /\ Commit(f.w)
                /\ reply' = Reply("remove_favorite", <<filename>>, favorites)
    /\ call' = NoCall
    /\ batch_ret' = None
    /\ UNCHANGED loop_vars

\* ------------------------------------------------------ the audio listings
\* The tokens of file names in the order Python compares them as strings:
\* ".", the digits, the capitals, "_", the small letters.  The seconds of a
\* timestamp are of fixed width and sort as strings the way they sort as numbers.
Collation ==
    <<".txt", ".wav">> \o [n \in 1..(MaxNow + 1) |-> ToString(n - 1)]
    \o <<"Boss", "Busy", "Plain", "Puck", "Zephyr", "_", "bare", "date", "default">>

ord(token) == CHOOSE i \in DOMAIN Collation : Collation[i] = token

RECURSIVE str_lt(_, _)
\* a < b on strings
str_lt(a, b) ==
    IF b = <<>> THEN FALSE
    ELSE IF a = <<>> THEN TRUE
    ELSE IF Head(a) = Head(b) THEN str_lt(Tail(a), Tail(b))
    ELSE ord(Head(a)) < ord(Head(b))

RECURSIVE sorted_names_reverse(_)
\* sorted(paths, reverse=True) on the files of one folder, as their names
sorted_names_reverse(names) ==
    IF names = {} THEN <<>>
    ELSE LET last == CHOOSE a \in names : \A b \in names : b = a \/ str_lt(b, a)
         IN  <<last>> \o sorted_names_reverse(names \ {last})

\* folder.glob("*.wav"), as file names
glob_wav(w, folder) ==
    {f[2] : f \in {g \in w.disk : g[1] = folder /\ g[2][Len(g[2])] = ".wav"}}

\* Path.stem: the name without its suffix.
stem(name) == SubSeq(name, 1, Len(name) - 1)

RECURSIVE split(_, _)
\* str.split(sep)
split(text, sep) ==
    IF \E i \in 1..Len(text) : text[i] = sep
    THEN LET first == CHOOSE i \in 1..Len(text) :
                          text[i] = sep /\ \A j \in 1..(i - 1) : text[j] # sep
         IN  <<SubSeq(text, 1, first - 1)>> \o split(SubSeq(text, first + 1, Len(text)), sep)
    ELSE <<text>>

RECURSIVE join(_, _)
\* sep.join(parts)
join(sep, parts) ==
    IF parts = <<>> THEN <<>>
    ELSE IF Len(parts) = 1 THEN parts[1]
    ELSE parts[1] \o <<sep>> \o join(sep, Tail(parts))

RECURSIVE read_metadata(_, _)
\* The loop over the lines of a metadata file: the value after "voice:",
\* "persona_name:" and "generated_at:", a later line replacing an earlier one.
read_metadata(lines, acc) ==
    IF lines = <<>> THEN acc
    ELSE LET l == Head(lines)
             value == SubSeq(l, 3, Len(l))
             next == IF Len(l) >= 2 /\ l[1] = "voice" /\ l[2] = ": "
                     THEN [acc EXCEPT !.voice = value]
                     ELSE IF Len(l) >= 2 /\ l[1] = "persona_name" /\ l[2] = ": "
                     THEN [acc EXCEPT !.persona = value]
                     ELSE IF Len(l) >= 2 /\ l[1] = "generated_at" /\ l[2] = ": "
                     THEN [acc EXCEPT !.timestamp = value]
                     ELSE acc
         IN  read_metadata(Tail(lines), next)

\* voice = "unknown"; persona = "default"; timestamp = ""
NoMetadata == [voice |-> <<"unknown">>, persona |-> <<"default">>, timestamp |-> <<>>]

\* list_session_audio: one summary per .wav file of the session's folder,
\* greatest name first; a file with no metadata file keeps the defaults.
\* (size_bytes is left out: the model keeps no content of audio files.)
list_session_audio(w, session_id) ==
    LET session_folder == SESSIONS_DIR \o <<session_id>>
        wav_files == sorted_names_reverse(glob_wav(w, session_folder))
        summary(name) ==
            LET meta_file == <<session_folder, stem(name) \o <<".txt">>>>
                m == IF meta_file \in w.disk
                     THEN read_metadata(w.metadata_txt[meta_file], NoMetadata)
                     ELSE NoMetadata
            IN  [filename |-> name, voice |-> m.voice, persona |-> m.persona,
                 timestamp |-> m.timestamp, session_id |-> session_id]
    IN  IF session_folder \notin w.dirs THEN <<>>
        ELSE [i \in 1..Len(wav_files) |-> summary(wav_files[i])]

\* GET /sessions/{session_id}/audio
get_session_audio(session_id) ==
    Lookup("list_session_audio", <<session_id>>, list_session_audio(World, session_id))

\* GET /audio: the .wav files of the chosen folder, greatest name first; a
\* file with no metadata file is described from its name split on "_".
list_audio(session_id, legacy) ==
    /\ ~LoopBusy
    /\ Handled
    /\ LET f == IF legacy THEN [ret |-> OUTPUT_DIR, w |-> World]
                ELSE get_audio_folder(World, session_id)
           folder == f.ret
           favorites == load_favorites(f.w, folder)
           wav_files == sorted_names_reverse(glob_wav(f.w, folder))
           summary(name) ==
               LET meta_file == <<folder, stem(name) \o <<".txt">>>>
                   parts == split(stem(name), "_")
                   m == IF meta_file \in f.w.disk
                        THEN read_metadata(f.w.metadata_txt[meta_file], NoMetadata)
                        ELSE IF Len(parts) >= 3
                        THEN [timestamp |-> parts[1] \o <<"_">> \o parts[2],
                              voice |-> parts[3],
                              persona |-> IF Len(parts) > 3
                                          THEN join("_", SubSeq(parts, 4, Len(parts)))
                                          ELSE <<"default">>]
                        ELSE NoMetadata
               IN  [filename |-> name, voice |-> m.voice, persona |-> m.persona,
                    timestamp |-> m.timestamp, is_favorite |-> In(name, favorites),
                    session_id |-> IF session_id # None THEN session_id
                                   ELSE get_active_session_id(f.w)]
       IN  /\ Commit(f.w)
           /\ reply' = Reply("list_audio", <<session_id, legacy>>,
                             [i \in 1..Len(wav_files) |-> summary(wav_files[i])])
    /\ call' = NoCall
    /\ batch_ret' = None
    /\ UNCHANGED loop_vars

\* ------------------------------------------------------------- the batch
\* asyncio.Semaphore(5)
SemaphoreLimit == 5

Tasks == DOMAIN pc

\* The tasks between "async with semaphore" entered and left.
Running == {i \in Tasks : pc[i] \in {"admitted", "generated"}}

\* POST /batch up to "await asyncio.gather(*tasks)": the session id is read,
\* the semaphore made and one task per voice queued, in input order.
batch_generate(request) ==
    /\ batch = None
    /\ Handled
    /\ batch' = [voices |-> request.voices, text |-> request.text,
                 persona_id |-> request.persona_id, model |-> request.model,
                 session_id |-> get_active_session_id(World)]
    /\ semaphore' = SemaphoreLimit
    /\ waiters' = <<>>
    /\ ready' = [i \in 1..Len(request.voices) |-> i]
    /\ pc' = [i \in 1..Len(request.voices) |-> "ready"]
    /\ results' = [i \in 1..Len(request.voices) |-> None]
    /\ Delivered
    /\ UNCHANGED store_vars

\* generate_one entering the semaphore without taking a permit.
acquire_without_permit(i) ==
    /\ batch # None
    /\ Running = {}
    /\ ready # <<>>
    /\ i = Head(ready)
    /\ ready' = Tail(ready)
    /\ pc' = [pc EXCEPT ![i] = "admitted"]
    /\ Delivered
    /\ UNCHANGED <<now, store_vars, batch, results, semaphore, waiters>>

\* generate_one, "async with semaphore": semaphore.acquire() returns at once
\* while a permit is free, and suspends the task otherwise.
acquire(i) ==
    /\ batch # None
    /\ Running = {}
    /\ ready # <<>>
    /\ i = Head(ready)
    /\ ready' = Tail(ready)
    /\ IF semaphore > 0
       THEN /\ semaphore' = semaphore - 1
            /\ pc' = [pc EXCEPT ![i] = "admitted"]
            /\ waiters' = waiters
       ELSE /\ semaphore' = semaphore
            /\ pc' = [pc EXCEPT ![i] = "waiting"]
            /\ waiters' = Append(waiters, i)
    /\ Delivered
    /\ UNCHANGED <<now, store_vars, batch, results>>

\* generate_one, inside the semaphore: the request is built and generate_speech
\* awaited; nothing in generate_speech suspends, so it runs to its end here.
speech(i, env) ==
    /\ batch # None
    /\ i \in Tasks
    /\ pc[i] = "admitted"
    /\ LET request == GenerateRequest(batch.voices[i], batch.text, batch.persona_id, batch.model)
           r == generate_speech(World, now, request, batch.session_id, env)
       IN  /\ Commit(r.w)
           /\ call' = Call(i, request, batch.session_id, env, r)
           /\ results' = [results EXCEPT ![i] = [raised |-> r.raised, exception |-> r.exception, ret |-> r.ret]]
    /\ pc' = [pc EXCEPT ![i] = "generated"]
    /\ batch_ret' = None
    /\ reply' = NoReply
    /\ UNCHANGED <<now, batch, semaphore, waiters, ready>>

\* generate_one giving its permit back only after a successful generation.
release_on_success(i) ==
    /\ batch # None
    /\ i \in Tasks
    /\ pc[i] = "generated"
    /\ semaphore' = IF results[i].raised \/ results[i].ret.success # TRUE
                    THEN semaphore ELSE semaphore + 1
    /\ ready' = ready
    /\ waiters' = waiters
    /\ pc' = [pc EXCEPT ![i] = "done"]
    /\ Delivered
    /\ UNCHANGED <<now, store_vars, batch, results>>

\* generate_one leaving the semaphore with its permit kept.
release_keeps_permit(i) ==
    /\ batch # None
    /\ i \in Tasks
    /\ pc[i] = "generated"
    /\ semaphore' = semaphore
    /\ ready' = ready
    /\ waiters' = waiters
    /\ pc' = [pc EXCEPT ![i] = "done"]
    /\ Delivered
    /\ UNCHANGED <<now, store_vars, batch, results>>

\* generate_one leaves "async with semaphore": the permit is released, also
\* when generate_speech raised, and the first waiting task made runnable.
release(i) ==
    /\ batch # None
    /\ i \in Tasks
    /\ pc[i] = "generated"
    /\ semaphore' = semaphore + 1
    /\ IF waiters # <<>>
       THEN /\ ready' = Append(ready, Head(waiters))
            /\ waiters' = Tail(waiters)
            /\ pc' = [pc EXCEPT ![i] = "done", ![Head(waiters)] = "ready"]
       ELSE /\ ready' = ready
            /\ waiters' = waiters
            /\ pc' = [pc EXCEPT ![i] = "done"]
    /\ Delivered
    /\ UNCHANGED <<now, store_vars, batch, results>>

\* asyncio.gather handing the results back last task first.
gather_reversed ==
    IF \E i \in Tasks : results[i].raised
    THEN LET first == CHOOSE i \in Tasks : results[i].raised /\ \A j \in Tasks : results[j].raised => i <= j
         IN  [raised |-> TRUE, exception |-> results[first].exception, ret |-> None]
    ELSE [raised |-> FALSE, exception |-> None,
          ret |-> [i \in Tasks |-> results[Cardinality(Tasks) + 1 - i].ret]]

\* asyncio.gather(*tasks) without return_exceptions: the results in input
\* order, or the first exception a task raised.
gather ==
    IF \E i \in Tasks : results[i].raised
    THEN LET first == CHOOSE i \in Tasks : results[i].raised /\ \A j \in Tasks : results[j].raised => i <= j
         IN  [raised |-> TRUE, exception |-> results[first].exception, ret |-> None]
    ELSE [raised |-> FALSE, exception |-> None, ret |-> [i \in Tasks |-> results[i].ret]]

\* POST /batch from the await on: every task has ended; the handler returns
\* {"results": results, "total": len(results)} or fails with gather's exception.
batch_generate_return ==
    /\ batch # None
    /\ \A i \in Tasks : pc[i] = "done"
    /\ LET g == gather
       IN  batch_ret' = [voices |-> batch.voices, session_id |-> batch.session_id,
                         raised |-> g.raised, exception |-> g.exception,
                         results |-> g.ret,
                         total |-> IF g.raised THEN None ELSE Len(g.ret)]
    /\ batch' = None
    /\ semaphore' = SemaphoreLimit
    /\ waiters' = <<>>
    /\ ready' = <<>>
    /\ pc' = <<>>
    /\ results' = <<>>
    /\ call' = NoCall
    /\ reply' = NoReply
    /\ UNCHANGED <<now, store_vars>>

\* ------------------------------------------------------ the specifications
\* The inputs the requests are drawn from.
Zephyr == <<"Zephyr">>
Puck == <<"Puck">>
Voices == {Zephyr, Puck}
Text == <<"Hello">>
FLASH == <<"gemini-2.5-flash-preview-tts">>
Names == {<<"Demo">>, <<"Other">>}
Mime8 == <<(<<"audio/L", "8">>), (<<"rate=", "16000">>)>>

Requests == {GenerateRequest(v, Text, None, FLASH) : v \in Voices}

Env(fault, stream) == [fault |-> fault, stream |-> stream]

BatchRequest(voices, persona_id) ==
    [voices |-> voices, text |-> Text, persona_id |-> persona_id, model |-> FLASH]

SessionIds == {<<"session", "_">> \o strftime(t) : t \in 0..MaxNow}

Init ==
    /\ now = 0
    /\ _active_session_id = None
    /\ dirs = {}
    /\ session_json = <<>>
    /\ disk = {}
    /\ favorites_json = <<>>
    /\ metadata_txt = <<>>
    /\ call = NoCall
    /\ batch = None
    /\ semaphore = SemaphoreLimit
    /\ waiters = <<>>
    /\ ready = <<>>
    /\ pc = <<>>
    /\ results = <<>>
    /\ batch_ret = None
    /\ reply = NoReply

\* Spec: every request handler, with a stream that is empty or one audio chunk
\* and a metadata write that may fail.
Envs ==
    {Env("none", <<>>), Env("none", <<AudioChunk(<<"A">>, None)>>),
     Env("metadata_write", <<AudioChunk(<<"A">>, None)>>)}

BatchRequests == {BatchRequest(<<Zephyr, Puck>>, None), BatchRequest(<<Puck, Puck>>, None)}

Next ==
    \/ Tick
    \/ \E request \in Requests, env \in Envs : generate(request, env)
    \/ \E name \in Names : create_new_session(name, None, "demo", Text)
    \/ \E id \in SessionIds : activate_session(id)
    \/ \E id \in SessionIds, v \in Voices : update_session(id, <<v>>, <<>>)
    \/ \E request \in BatchRequests : batch_generate(request)
    \/ \E i \in Tasks : acquire(i)
    \/ \E i \in Tasks, env \in Envs : speech(i, env)
    \/ \E i \in Tasks : release(i)
    \/ batch_generate_return

Spec == Init /\ [][Next]_vars

\* SpecEngine: the generations of batches of two voices, with every step that
\* can fail, and over the streams of one chunk of any shape and of up to
\* MaxChunks chunks that are audio, skipped or malformed.
AudioAB == AudioChunk(<<"A", "B">>, None)
AudioC == AudioChunk(<<"C">>, Mime8)
StreamChunks == SilentChunks \cup {AudioAB, AudioC}
CoreChunks == {AudioAB, AudioC, NoCandidates, EmptyParts}
Streams ==
    {<<chunk>> : chunk \in StreamChunks}
        \cup UNION {[1..n -> CoreChunks] : n \in 0..MaxChunks}

EngineEnvs ==
    {Env("none", stream) : stream \in Streams}
        \cup {Env(fault, stream) : fault \in Faults, stream \in {<<>>, <<AudioAB>>}}

EngineRequests == {BatchRequest(<<Zephyr, Puck>>, <<"busy_boss">>)}

NextEngine ==
    \/ now < MaxEngineNow /\ create_new_session(<<"Demo">>, None, "demo", Text)
    \/ now < MaxEngineNow /\ \E request \in EngineRequests : batch_generate(request)
    \/ \E i \in Tasks : acquire(i)
    \/ \E i \in Tasks, env \in EngineEnvs : speech(i, env)
    \/ \E i \in Tasks : release(i)
    \/ batch_generate_return

SpecEngine == Init /\ [][NextEngine]_vars

\* SpecBatch: batches of up to MaxVoices voices, more than the semaphore
\* admits, whose generations succeed, find no audio or fail in the stream.
BatchVoices(n) == [i \in 1..n |-> IF i % 2 = 1 THEN Zephyr ELSE Puck]

BatchEnvs ==
    {Env("none", <<AudioAB>>), Env("none", <<>>), Env("stream", <<AudioAB>>)}

BatchesOfVoices == {BatchRequest(BatchVoices(n), None) : n \in 1..MaxVoices}

NextBatch ==
    \/ \E request \in BatchesOfVoices : batch_generate(request)
    \/ \E i \in Tasks : acquire(i)
    \/ \E i \in Tasks, env \in BatchEnvs : speech(i, env)
    \/ \E i \in Tasks : release(i)
    \/ batch_generate_return

SpecBatch == Init /\ [][NextBatch]_vars

\* SpecGate: the gate of the batch under a fair event loop.  The loop runs
\* every callback it has queued: a runnable task enters the semaphore, an
\* admitted generation comes to its end, succeeding or failing in the stream,
\* and the task then leaves the semaphore.
GateEnvs == {Env("none", <<AudioAB>>), Env("stream", <<AudioAB>>)}

GateBatches == {BatchRequest(BatchVoices(n), None) : n \in {1, MaxVoices}}

NextGate ==
    \/ now < MaxGateNow /\ \E request \in GateBatches : batch_generate(request)
    \/ \E i \in Tasks : acquire(i)
    \/ \E i \in Tasks, env \in GateEnvs : speech(i, env)
    \/ \E i \in Tasks : release(i)
    \/ batch_generate_return

FairGate ==
    /\ WF_vars(\E i \in Tasks : acquire(i))
    /\ WF_vars(\E i \in Tasks, env \in GateEnvs : speech(i, env))
    /\ WF_vars(\E i \in Tasks : release(i))
    /\ WF_vars(batch_generate_return)

SpecGate == Init /\ [][NextGate]_vars /\ FairGate

\* SpecStore: every operation on the session store and the favorites, on ids
\* that exist and that do not, with single generations and batches of two.
FileA == <<"a", ".wav">>
FileB == <<"b", ".wav">>
FavoriteLists == {<<>>, <<FileA>>, <<FileB, FileA>>}
AnyIds == SessionIds \cup {<<"nonexistent">>}
StoreRequests == {GenerateRequest(Zephyr, Text, None, FLASH)}
StoreBatches == {BatchRequest(<<Zephyr, Puck>>, None)}

NextStore ==
    \/ now < MaxStoreNow /\ create_new_session(<<"Demo">>, None, "demo", Text)
    \/ now < MaxStoreNow /\ \E id \in AnyIds : activate_session(id)
    \/ now < MaxStoreNow /\ \E id \in AnyIds, v \in Voices : update_session(id, <<v>>, <<FileA>>)
    \/ now < MaxStoreNow /\ \E id \in AnyIds, favorites \in FavoriteLists : update_session_favorites(id, favorites)
    \/ now < MaxStoreNow /\ \E id \in AnyIds, v \in Voices : call_add_file_to_session(id, FileA, v)
    \/ now < MaxStoreNow /\ \E id \in AnyIds : get_session_by_id(id)
    \/ now < MaxStoreNow /\ get_sessions
    \/ now < MaxStoreNow /\ get_active_session
    \/ now < MaxStoreNow /\ \E filename \in {FileA, FileB} : add_favorite(filename)
    \/ now < MaxStoreNow /\ \E filename \in {FileA, FileB} : remove_favorite(filename)
    \/ now < MaxStoreNow /\ \E request \in StoreRequests, env \in Envs : generate(request, env)
    \/ now < MaxStoreNow /\ \E request \in StoreBatches : batch_generate(request)
    \/ \E i \in Tasks : acquire(i)
    \/ \E i \in Tasks, env \in Envs : speech(i, env)
    \/ \E i \in Tasks : release(i)
    \/ batch_generate_return

SpecStore == Init /\ [][NextStore]_vars

\* ------------------------------------------------- the prompt of a request
\* The value of a key in a JSON object, given as its list of key-value pairs,
\* and the default when the object has no such key.
member(body, key, default) ==
    IF \E i \in DOMAIN body : body[i][1] = key
    THEN body[CHOOSE i \in DOMAIN body : body[i][1] = key][2]
    ELSE default

\* GenerateRequest built from the JSON body of POST /generate: persona_id and
\* model have defaults, and a key the class does not declare is ignored.
parse_request(body) ==
    GenerateRequest(member(body, "voice", None), member(body, "text", None),
                    member(body, "persona_id", None), member(body, "model", FLASH))

PersonaIds == {None, <<"busy_boss">>, <<"plain">>, <<"bare">>, <<"nobody">>}
Whisper == <<"A slow whisper.">>

\* Request bodies: with and without a persona id, with and without a literal
\* tone-instruction override next to it.
Bodies ==
    {<<<<"voice", Zephyr>>, <<"text", Text>>>>}
    \cup {<<<<"voice", Zephyr>>, <<"text", Text>>, <<"persona_id", p>>>> : p \in PersonaIds}
    \cup {<<<<"voice", Puck>>, <<"text", Text>>, <<"persona_id", p>>,
             <<"tone_instructions", Whisper>>>> : p \in PersonaIds}

\* The requests POST /generate hands to its handler for these bodies.
BodyRequests == {parse_request(body) : body \in Bodies}

NextPrompt ==
    \/ Tick
    \/ \E name \in Names : create_new_session(name, None, "demo", Text)
    \/ \E request \in BodyRequests, env \in Envs : generate(request, env)

SpecPrompt == Init /\ [][NextPrompt]_vars

\* SpecAudio: generations whose metadata file is written, left empty or never
\* opened, into the legacy folder and into session folders, and the listings
\* of the audio files.
AudioEnvs ==
    {Env("none", <<AudioAB>>), Env("metadata_open", <<AudioAB>>),
     Env("metadata_write", <<AudioAB>>)}

AudioRequests ==
    {GenerateRequest(Zephyr, Text, None, FLASH),
     GenerateRequest(Puck, Text, <<"busy_boss">>, FLASH)}

NextAudio ==
    \/ now < MaxAudioNow /\ create_new_session(<<"Demo">>, None, "demo", Text)
    \/ now < MaxAudioNow /\ \E request \in AudioRequests, env \in AudioEnvs : generate(request, env)
    \/ now < MaxAudioNow /\ \E id \in AnyIds : get_session_audio(id)
    \/ now < MaxAudioNow /\ \E id \in AnyIds \cup {None}, legacy \in BOOLEAN : list_audio(id, legacy)

SpecAudio == Init /\ [][NextAudio]_vars

\* SpecDescriptor: single generations over the streams of up to MaxChunks
\* chunks that carry audio with no descriptor or with one of three, a
\* descriptor with no audio, or nothing.
Mime24 == <<(<<"audio/L", "24">>), (<<"rate=", "24000">>)>>
AudioD == AudioChunk(<<"D">>, Mime24)
AudioE == AudioChunk(<<"E">>, DefaultMime)
MimeOnly == AudioChunk(<<>>, Mime8)
DescriptorChunks == {AudioAB, AudioC, AudioD, AudioE, MimeOnly, NoCandidates}

DescriptorEnvs ==
    {Env("none", stream) : stream \in UNION {[1..n -> DescriptorChunks] : n \in 0..MaxChunks}}

NextDescriptor ==
    \/ now < MaxEngineNow /\ create_new_session(<<"Demo">>, None, "demo", Text)
    \/ now < MaxEngineNow /\ \E request \in StoreRequests, env \in DescriptorEnvs : generate(request, env)

SpecDescriptor == Init /\ [][NextDescriptor]_vars

\* SpecNames: successful single generations for two voices, with no persona,
\* a built-in persona and a custom persona, in the same and in different
\* seconds, into the legacy folder and into a session folder.
NameRequests ==
    {GenerateRequest(v, Text, p, FLASH) :
        v \in Voices, p \in {None, <<"busy_boss">>, <<"custom_busy_boss">>}}

NameEnvs == {Env("none", <<AudioAB>>)}

NextNames ==
    \/ Tick
    \/ create_new_session(<<"Demo">>, None, "demo", Text)
    \/ \E request \in NameRequests, env \in NameEnvs : generate(request, env)

SpecNames == Init /\ [][NextNames]_vars

\* SpecWav: the encoder applied to payloads of up to MaxPayload bytes and to
\* format descriptors of up to two parameters, well formed or not.
Payloads == UNION {[1..n -> {"A", "B"}] : n \in 0..MaxPayload}

MimeParams ==
    {<<"audio/L", "8">>, <<"audio/L", "16">>, <<"audio/L", "20">>, <<"audio/L", "24">>,
     <<"audio/L", "wide">>, <<"rate=", "16000">>, <<"rate=", "24000">>, <<"rate=", "fast">>}

Descriptors == {<<>>} \cup {<<a>> : a \in MimeParams} \cup {<<a, b>> : a, b \in MimeParams}

\* wav_data = convert_to_wav(audio_data, mime_type)
encode(audio_data, mime_type) ==
    /\ reply' = Reply("convert_to_wav", <<audio_data, mime_type>>,
                      convert_to_wav(audio_data, mime_type))
    /\ call' = NoCall
    /\ batch_ret' = None
    /\ UNCHANGED <<now, store_vars, loop_vars>>

NextWav == \E audio_data \in Payloads, mime_type \in Descriptors : encode(audio_data, mime_type)

SpecWav == Init /\ [][NextWav]_vars

\* ------------------------------------------------------------ the claims
\* No entry of the list occurs twice.
Distinct(list) == \A i, j \in DOMAIN list : list[i] = list[j] => i = j

\* C1: during a batch the generations inside the semaphore never number more
\* than SemaphoreLimit: each of them holds one of the SemaphoreLimit permits,
\* and a voice is admitted only with a permit that is free or was released.
C1_AtMostFiveInFlight ==
    /\ Cardinality(Running) <= SemaphoreLimit
    /\ semaphore \in 0..SemaphoreLimit
    /\ semaphore + Cardinality(Running) = SemaphoreLimit

\* In a batch of more voices than permits, a generation runs after
\* SemaphoreLimit others have ended, while a voice still waits its turn.
C1_Witness ==
    /\ batch # None
    /\ Len(batch.voices) > SemaphoreLimit
    /\ Cardinality({i \in Tasks : pc[i] = "done"}) >= SemaphoreLimit
    /\ Running # {}

\* C2: generate_batch returns one result per input voice, duplicates
\* included, also when generations fail: it ends with no exception, the
\* results are as many as the voices, and while a generation is not done the
\* batch is never left with nothing able to run.
C2_OneResultPerVoice ==
    /\ batch_ret # None
       => /\ ~batch_ret.raised
          /\ Len(batch_ret.results) = Len(batch_ret.voices)
          /\ batch_ret.total = Len(batch_ret.voices)
          /\ \A i \in DOMAIN batch_ret.results : batch_ret.results[i].success \in BOOLEAN
    /\ (batch # None /\ \E i \in Tasks : pc[i] # "done")
       => (ready # <<>> \/ Running # {})

\* A batch with a voice given twice returned: a generation failed, a later
\* one succeeded, and there are more results than permits.
C2_Witness ==
    /\ batch_ret # None
    /\ ~batch_ret.raised
    /\ Len(batch_ret.voices) > SemaphoreLimit
    /\ ~Distinct(batch_ret.voices)
    /\ Len(batch_ret.results) = Len(batch_ret.voices)
    /\ \E i, j \in DOMAIN batch_ret.results :
          /\ i < j
          /\ batch_ret.results[i].success = FALSE
          /\ batch_ret.results[j].success = TRUE

\* The steps of a call that raise, by what the call was given.
Malformed(stream) == \E k \in DOMAIN stream : stream[k] \in {EmptyCandidates, EmptyParts}

Strikes(c) ==
    \/ c.env.fault \in {"credentials", "personas"}
    \/ c.env.fault = "stream" /\ ~Malformed(c.env.stream)
    \/ /\ c.env.fault \in {"audio_open", "audio_write", "metadata_open", "metadata_write"}
       /\ c.locals.wav_data # None
    \/ /\ c.env.fault = "session_update"
       /\ c.locals.wav_data # None
       /\ c.locals.active_session # None

\* C3: generate_speech never raises: when resolving the client, loading the
\* personas, the stream, a file write or the session update raises, it returns
\* success = false with the exception's message as the error.
C3_NeverRaises ==
    call # NoCall
    => /\ ~call.raised
       /\ call.ret.success \in BOOLEAN
       /\ Strikes(call)
          => /\ call.ret.success = FALSE
             /\ call.ret.error = str(Fault(call.env.fault))
       /\ (Malformed(call.env.stream) /\ call.env.fault \notin {"credentials", "personas"})
          => /\ call.ret.success = FALSE
             /\ call.ret.error = str(IndexError)

\* A generation in a session got its audio and wrote its files, then the
\* session update raised and the call returned the failure.
C3_Witness ==
    /\ call # NoCall
    /\ call.env.fault = "session_update"
    /\ call.locals.wav_data # None
    /\ call.locals.active_session # None
    /\ ~call.raised
    /\ call.ret.success = FALSE
    /\ call.ret.error = str(Fault("session_update"))

\* C4: when generate_speech returns a failure, no .wav and no .txt file that
\* the call wrote is on disk.
C4_NoFilesAfterFailure ==
    (call # NoCall /\ ~call.raised /\ call.ret.success = FALSE)
    => call.locals.wrote \cap disk = {}

\* C5: a generation whose stream has no chunk with an audio payload, the empty
\* stream included, returns success = false with the error "No audio data
\* received", writes no file and changes no session record.
C5_NoAudioReceived ==
    [][(/\ call' # NoCall
        /\ call'.env.fault = "none"
        /\ \A k \in DOMAIN call'.env.stream : ~has_audio(call'.env.stream[k]))
       => /\ ~call'.raised
          /\ call'.ret.success = FALSE
          /\ call'.ret.error = <<"No audio data received">>
          /\ disk' = disk
          /\ session_json' = session_json]_vars

RECURSIVE Payload(_)
\* The bytes of the chunks that carry audio, in the order of the stream.
Payload(stream) ==
    IF stream = <<>> THEN <<>>
    ELSE (IF has_audio(Head(stream)) THEN Head(stream).data ELSE <<>>) \o Payload(Tail(stream))

\* C6: the payload a generation hands to the WAV encoder is the bytes of its
\* stream's audio chunks, concatenated in the order the stream delivered them:
\* none dropped, repeated, reordered or taken from another generation.
C6_PayloadInStreamOrder ==
    (call # NoCall /\ call.locals.wav_data # None)
    => /\ call.locals.audio_data = Payload(call.env.stream)
       /\ call.locals.wav_data.payload = Payload(call.env.stream)
       /\ call.locals.wav_data.data_size = Len(Payload(call.env.stream))

\* The second generation of a batch encoded C, A, B from the chunks C and AB,
\* after the first generation had encoded audio of its own.
C6_Witness ==
    /\ call # NoCall
    /\ call.task = 2
    /\ call.env.stream = <<AudioC, AudioAB>>
    /\ call.locals.wav_data # None
    /\ call.locals.wav_data.payload = <<"C", "A", "B">>
    /\ results[1].ret.success = TRUE

\* The step in which the last generation of a batch ends: gather has every result.
BatchJoin ==
    /\ batch # None
    /\ batch' # None
    /\ \E i \in DOMAIN pc : pc[i] # "done"
    /\ \A i \in DOMAIN pc' : pc'[i] = "done"

\* C7: when the last generation of a batch for distinct voices in a session
\* ends and every result is a success, the session's record holds every
\* requested voice in voices_tested and every returned filename in
\* generated_files: no append of the batch is lost.
C7_BatchAppendsKept ==
    [][(/\ BatchJoin
        /\ batch.session_id # None
        /\ Distinct(batch.voices)
        /\ \A i \in DOMAIN results' : ~results'[i].raised /\ results'[i].ret.success = TRUE)
       => /\ batch.session_id \in DOMAIN session_json'
          /\ \A i \in DOMAIN results' :
                /\ In(batch.voices[i], session_json'[batch.session_id].voices_tested)
                /\ In(results'[i].ret.file_path, session_json'[batch.session_id].generated_files)]_vars

\* A batch of two distinct voices in a session has ended with two successes
\* and two different filenames, both on the record.
C7_Witness ==
    /\ batch # None
    /\ batch.session_id # None
    /\ Len(batch.voices) >= 2
    /\ Distinct(batch.voices)
    /\ \A i \in Tasks : pc[i] = "done" /\ results[i].ret.success = TRUE
    /\ results[1].ret.file_path # results[2].ret.file_path
    /\ batch.session_id \in DOMAIN session_json
    /\ \A i \in Tasks : In(results[i].ret.file_path, session_json[batch.session_id].generated_files)

\* C8: after a successful generate_speech for which a session applies, that
\* session's record holds the new filename exactly once and the voice exactly
\* once, also when they were on the record before.
C8_RecordedExactlyOnce ==
    (/\ call # NoCall
     /\ ~call.raised
     /\ call.ret.success = TRUE
     /\ call.locals.active_session # None)
    => /\ call.locals.active_session \in DOMAIN session_json
       /\ Count(call.ret.file_path, session_json[call.locals.active_session].generated_files) = 1
       /\ Count(call.request.voice, session_json[call.locals.active_session].voices_tested) = 1

\* C9: a generation writes into the folder of the session id it was given,
\* else into the active session's folder, else into the legacy output folder,
\* and creates or writes nothing in any other folder.
C9_OutputFolderChoice ==
    [][call' # NoCall
       => LET expected == IF call'.session_id # None THEN SESSIONS_DIR \o <<call'.session_id>>
                          ELSE IF _active_session_id # None THEN SESSIONS_DIR \o <<_active_session_id>>
                          ELSE OUTPUT_DIR
          IN  /\ call'.locals.output_folder \in {None, expected}
              /\ \A f \in (disk' \ disk) \cup call'.locals.wrote : f[1] = expected
              /\ (dirs' \ dirs) \subseteq {expected}]_vars

\* A generation given a session id wrote its files into that session's folder
\* while another session was the active one.
C9_Witness ==
    /\ call # NoCall
    /\ call.session_id # None
    /\ _active_session_id # None
    /\ call.session_id # _active_session_id
    /\ call.ret.success = TRUE
    /\ call.locals.wrote # {}
    /\ \A f \in call.locals.wrote : f \in disk /\ f[1] = SESSIONS_DIR \o <<call.session_id>>

\* C10: when create_session returns s, the active session id is s.id whatever
\* it was before, s's folder exists, and s's record is persisted: get_session
\* returns s.
C10_CreatedSessionActive ==
    reply.op = "create_session"
    => /\ _active_session_id = reply.ret.id
       /\ SESSIONS_DIR \o <<reply.ret.id>> \in dirs
       /\ session_file_exists(World, reply.ret.id)
       /\ get_session(World, reply.ret.id) = reply.ret

\* A session was created while an older session existed, and is the active one.
C10_Witness ==
    /\ reply.op = "create_session"
    /\ \E id \in DOMAIN session_json : id # reply.ret.id
    /\ _active_session_id = reply.ret.id
    /\ get_session(World, reply.ret.id) = reply.ret

\* C11: set_active_session with an id that has no session record returns
\* not-found and leaves the active session id as it was; with the id of an
\* existing session it returns that session and makes it the active one.
C11_SetActiveSession ==
    [][reply'.op = "set_active_session"
       => IF reply'.args[1] \in DOMAIN session_json
          THEN /\ reply'.ret = session_json[reply'.args[1]]
               /\ _active_session_id' = reply'.args[1]
          ELSE /\ reply'.ret = None
               /\ _active_session_id' = _active_session_id]_vars

\* set_active_session was refused for an unknown id while a session is active.
C11_Witness ==
    /\ reply.op = "set_active_session"
    /\ reply.args[1] \notin DOMAIN session_json
    /\ reply.ret = None
    /\ _active_session_id # None
    /\ _active_session_id # reply.args[1]

IsPrefix(a, b) == Len(a) <= Len(b) /\ SubSeq(b, 1, Len(a)) = a

\* C13: once a session is created no operation deletes its record or changes
\* its id, created_at, name, persona_id, text_type or text_content, and its
\* generated_files and voices_tested only grow at the end.
C13_SessionRecordKept ==
    [][\A id \in DOMAIN session_json :
          /\ id \in DOMAIN session_json'
          /\ session_json'[id].id = session_json[id].id
          /\ session_json'[id].created_at = session_json[id].created_at
          /\ session_json'[id].name = session_json[id].name
          /\ session_json'[id].persona_id = session_json[id].persona_id
          /\ session_json'[id].text_type = session_json[id].text_type
          /\ session_json'[id].text_content = session_json[id].text_content
          /\ IsPrefix(session_json[id].generated_files, session_json'[id].generated_files)
          /\ IsPrefix(session_json[id].voices_tested, session_json'[id].voices_tested)]_vars

\* C14: update_favorites(id, L) on an existing session sets its favorites to
\* exactly L, whatever they were, so that get_session(id) returns them, and
\* changes no other field, no other session and nothing else in the store.
C14_FavoritesReplaced ==
    [][(reply'.op = "update_favorites" /\ reply'.args[1] \in DOMAIN session_json)
       => /\ session_json' = [session_json EXCEPT ![reply'.args[1]] =
                                 [session_json[reply'.args[1]] EXCEPT !.favorites = reply'.args[2]]]
          /\ reply'.ret = session_json'[reply'.args[1]]
          /\ reply'.ret.favorites = reply'.args[2]
          /\ UNCHANGED <<_active_session_id, dirs, disk, favorites_json>>]_vars

\* update_favorites stored the list b, a on a session that holds files.
C14_Witness ==
    /\ reply.op = "update_favorites"
    /\ reply.ret # None
    /\ reply.args[2] = <<FileB, FileA>>
    /\ session_json[reply.args[1]].favorites = <<FileB, FileA>>
    /\ session_json[reply.args[1]].generated_files # <<>>

\* C15: add_file_to_session is idempotent: after a call, the same call again
\* leaves the record as it is, with the filename once in generated_files and
\* the voice once in voices_tested.
C15_AddFileIdempotent ==
    (reply.op = "add_file_to_session" /\ reply.ret # None)
    => /\ add_file_to_session(World, reply.args[1], reply.args[2], reply.args[3]).w = World
       /\ Count(reply.args[2], session_json[reply.args[1]].generated_files) = 1
       /\ Count(reply.args[3], session_json[reply.args[1]].voices_tested) = 1

\* C16: right after create_session returns s, list_sessions returns the
\* sessions in descending id order with s first, followed by every session
\* that existed before the call, none missing.
C16_NewSessionListedFirst ==
    [][reply'.op = "create_session"
       => LET listed == list_sessions([dirs |-> dirs', session_json |-> session_json',
                                       disk |-> disk', favorites_json |-> favorites_json',
                                       metadata_txt |-> metadata_txt',
                                       active |-> _active_session_id'])
          IN  /\ Len(listed) >= 1
              /\ listed[1] = reply'.ret
              /\ \A i, j \in DOMAIN listed : i < j => second(listed[i].id) > second(listed[j].id)
              /\ \A id \in DOMAIN session_json :
                    \E i \in 2..Len(listed) : listed[i] = session_json[id]]_vars

\* C17: get_session, update_favorites and add_file_to_session with an id that
\* has no session record return not-found and change nothing stored: no
\* record, no folder, no existing session, not the active session id.
C17_UnknownIdChangesNothing ==
    [][(/\ reply'.op \in {"get_session", "update_favorites", "add_file_to_session"}
        /\ reply'.args[1] \notin DOMAIN session_json)
       => /\ reply'.ret = None
          /\ UNCHANGED store_vars]_vars

\* update_favorites was refused for an unknown id while sessions exist.
C17_Witness ==
    /\ reply.op = "update_favorites"
    /\ reply.args[1] \notin DOMAIN session_json
    /\ reply.ret = None
    /\ DOMAIN session_json # {}
    /\ SESSIONS_DIR \o <<reply.args[1]>> \notin dirs

\* C18: a successful generation's result carries the owning session id: the
\* id it was given, else the active session id, and None only when the files
\* went to the legacy folder.
C18_ResultCarriesSession ==
    (call # NoCall /\ ~call.raised /\ call.ret.success = TRUE)
    => /\ "session_id" \in DOMAIN call.ret
       /\ call.ret.session_id = (IF call.session_id # None THEN call.session_id
                                 ELSE _active_session_id)
       /\ call.ret.session_id = None <=> call.locals.output_folder = OUTPUT_DIR

\* The persona id of the request names a persona of the catalog.
Resolved(request) ==
    request.persona_id # None /\ request.persona_id \in DOMAIN get_all_personas

\* The tone instructions of the persona the request names, empty when it has none.
ToneOf(request) ==
    IF "tone_instructions" \in DOMAIN get_all_personas[request.persona_id]
    THEN get_all_personas[request.persona_id].tone_instructions
    ELSE <<>>

\* C19: the prompt sent to the model is "Read aloud in {tone}\n\n{text}"
\* exactly when the request's persona id names a persona whose tone
\* instructions are not empty, and the request text as it is otherwise; when
\* the persona id names no persona the artifact is labelled "default" and the
\* generation does not fail for it.
C19_PromptFromPersona ==
    (call # NoCall /\ call.locals.prompt # None)
    => LET request == call.request
           toned == Resolved(request) /\ ToneOf(request) # <<>>
       IN  /\ toned => call.locals.prompt
                        = <<"Read aloud in ">> \o ToneOf(request) \o <<"\n\n">> \o request.text
           /\ ~toned => call.locals.prompt = request.text
           /\ ~Resolved(request) =>
                 /\ call.locals.persona_name = <<"default">>
                 /\ call.env = Env("none", <<AudioChunk(<<"A">>, None)>>) =>
                       /\ call.ret.success = TRUE
                       /\ call.locals.base_name[Len(call.locals.base_name)] = "default"

\* A generation with the persona whose tone instructions are empty succeeded.
C19_Witness ==
    /\ call # NoCall
    /\ call.request.persona_id = <<"plain">>
    /\ call.locals.prompt = Text
    /\ call.locals.persona_name = <<"Plain">>
    /\ call.ret.success = TRUE

\* C20: when the request body carries a persona id and a literal
\* tone-instruction override, the prompt is built from the override and not
\* from the persona's stored tone instructions.
C20_OverrideWins ==
    \A body \in Bodies :
        (/\ call # NoCall
         /\ call.locals.prompt # None
         /\ call.request = parse_request(body)
         /\ member(body, "tone_instructions", None) # None
         /\ member(body, "persona_id", None) # None)
        => call.locals.prompt
           = <<"Read aloud in ">> \o member(body, "tone_instructions", None)
             \o <<"\n\n">> \o member(body, "text", None)

\* C21: the generations of one batch can be in flight together: while an
\* admitted generation has not finished, the next queued generation of the
\* batch can start as long as a permit is free.
C21_GenerationsOverlap ==
    (batch # None /\ Running # {} /\ ready # <<>> /\ semaphore > 0)
    => ENABLED acquire(Head(ready))

\* C22: in a batch, every voice's generation is in the end admitted through
\* the semaphore and finishes, whether the generations before it succeeded or
\* failed: no task is left queued or waiting for a permit for ever.
C22_EveryVoiceFinishes ==
    \A i \in 1..MaxVoices :
        /\ (i \in Tasks /\ pc[i] \in {"ready", "waiting"})
               ~> (i \in Tasks /\ pc[i] = "admitted")
        /\ (i \in Tasks /\ pc[i] # "done") ~> (i \in Tasks /\ pc[i] = "done")

\* The voice after the first SemaphoreLimit voices has finished in a batch in
\* which a generation failed.
C22_Witness ==
    /\ batch # None
    /\ \E i \in Tasks : i > SemaphoreLimit /\ pc[i] = "done"
    /\ \E j \in Tasks : results[j] # None /\ results[j].ret.success # TRUE

\* The .wav files of a folder, as <<folder, name>>.
AudioFiles(folder) == {f \in disk : f[1] = folder /\ f[2][Len(f[2])] = ".wav"}

\* C23: list_session_audio returns one summary per audio file of the
\* session's folder, in descending order of file name; the voice, persona and
\* timestamp of a summary are the ones its metadata file states, and for an
\* audio file with no metadata file they are the parts of the file name split
\* on "_".
C23_SessionAudioListed ==
    reply.op = "list_session_audio"
    => LET folder == SESSIONS_DIR \o <<reply.args[1]>>
           listed == reply.ret
       IN  /\ Len(listed) = Cardinality(AudioFiles(folder))
           /\ \A f \in AudioFiles(folder) : \E i \in DOMAIN listed : listed[i].filename = f[2]
           /\ \A i, j \in DOMAIN listed : i < j => str_lt(listed[j].filename, listed[i].filename)
           /\ \A i \in DOMAIN listed :
                LET meta_file == <<folder, stem(listed[i].filename) \o <<".txt">>>>
                    parts == split(stem(listed[i].filename), "_")
                IN  IF meta_file \in disk
                    THEN \A l \in Range(metadata_txt[meta_file]) :
                            /\ l[1] = "voice" => listed[i].voice = SubSeq(l, 3, Len(l))
                            /\ l[1] = "persona_name" => listed[i].persona = SubSeq(l, 3, Len(l))
                            /\ l[1] = "generated_at" => listed[i].timestamp = SubSeq(l, 3, Len(l))
                    ELSE /\ listed[i].timestamp = parts[1] \o <<"_">> \o parts[2]
                         /\ listed[i].voice = parts[3]
                         /\ listed[i].persona = join("_", SubSeq(parts, 4, Len(parts)))

\* C24: add_favorite and remove_favorite change only the favorites list of the
\* folder chosen when they are called (the active session's folder, else the
\* legacy folder) and leave every other folder's list, every session record,
\* the files and the active session as they are; add appends the file name
\* unless the list holds it, so that no folder's list holds a name twice, and
\* removing a name the list does not hold changes nothing.
C24_FavoritesPerFolder ==
    [][reply'.op \in {"add_favorite", "remove_favorite"}
       => LET folder == IF _active_session_id # None
                        THEN SESSIONS_DIR \o <<_active_session_id>>
                        ELSE OUTPUT_DIR
              before == get(favorites_json, folder, <<>>)
              after == get(favorites_json', folder, <<>>)
              filename == reply'.args[1]
          IN  /\ \A g \in (DOMAIN favorites_json \cup DOMAIN favorites_json') \ {folder} :
                    /\ g \in DOMAIN favorites_json /\ g \in DOMAIN favorites_json'
                    /\ favorites_json'[g] = favorites_json[g]
              /\ UNCHANGED <<session_json, _active_session_id, disk, dirs, metadata_txt>>
              /\ \A g \in DOMAIN favorites_json' : Distinct(favorites_json'[g])
              /\ reply'.op = "add_favorite"
                    => after = IF In(filename, before) THEN before ELSE Append(before, filename)
              /\ reply'.op = "remove_favorite"
                    => /\ ~In(filename, after)
                       /\ \A x \in Range(before) : x # filename => In(x, after)
                       /\ Len(after) <= Len(before)
                       /\ ~In(filename, before) => favorites_json' = favorites_json]_vars

\* A favorite was added to the active session's folder while the legacy folder
\* holds another list.
C24_Witness ==
    /\ reply.op = "add_favorite"
    /\ _active_session_id # None
    /\ OUTPUT_DIR \in DOMAIN favorites_json
    /\ SESSIONS_DIR \o <<_active_session_id>> \in DOMAIN favorites_json
    /\ favorites_json[OUTPUT_DIR] = <<FileA>>
    /\ favorites_json[SESSIONS_DIR \o <<_active_session_id>>] = <<FileB>>

\* A bit depth of whole bytes and a positive rate.
ValidPair(rate, bits) == rate > 0 /\ bits > 0 /\ bits % 8 = 0

\* C25: for a payload of L bytes and a valid rate and bit depth, the encoder's
\* output is 44 + L bytes long, declares the chunk size 36 + L, the data size
\* L, one channel, format code 1 and the byte rate rate * channels * bits / 8,
\* and ends with the payload as it was given.
C25_WavHeader ==
    reply.op = "convert_to_wav"
    => LET audio_data == reply.args[1]
           wav == reply.ret
           L == Len(audio_data)
       IN  ValidPair(wav.sample_rate, wav.bits_per_sample)
           => /\ wav_length(wav) = 44 + L
              /\ wav.chunk_size = 36 + L
              /\ wav.data_size = L
              /\ wav.num_channels = 1
              /\ wav.format = 1
              /\ wav.byte_rate * 8 = wav.sample_rate * wav.num_channels * wav.bits_per_sample
              /\ wav.payload = audio_data
              /\ \A b \in {"8", "16", "24"}, r \in {"16000", "24000"} :
                    reply.args[2] = <<(<<"audio/L", b>>), (<<"rate=", r>>)>>
                    => wav.bits_per_sample = int(b) /\ wav.sample_rate = int(r)

\* A payload of two bytes or more was encoded at 24 bits and 16000 Hz.
C25_Witness ==
    /\ reply.op = "convert_to_wav"
    /\ Len(reply.args[1]) >= 2
    /\ reply.ret.bits_per_sample = 24
    /\ reply.ret.sample_rate = 16000
    /\ reply.ret.byte_rate = 48000

\* The descriptor of the first chunk among those picked, the default when
\* there is none.
FirstDescriptor(stream, picked) ==
    IF picked = {} THEN DefaultMime
    ELSE stream[CHOOSE i \in picked : \A j \in picked : i <= j].mime_type

\* The container was encoded from the payload with this descriptor.
EncodedWith(descriptor) ==
    call.locals.wav_data = convert_to_wav(call.locals.audio_data, descriptor)

\* C26 as stated: the container is encoded with the descriptor of the first
\* chunk of the stream that supplies one, whatever later chunks supply, and
\* with the default audio/L16;rate=24000 when no chunk supplies one.
C26_FirstDescriptorOfStream ==
    (call # NoCall /\ call.locals.wav_data # None)
    => LET stream == call.env.stream
           supplying == {i \in DOMAIN stream :
                            stream[i].inline_data = "obj" /\ stream[i].mime_type # None}
       IN  EncodedWith(FirstDescriptor(stream, supplying))

\* C26, amended: the container is encoded with the descriptor of the first
\* chunk that carries audio and supplies a descriptor; the descriptor of a
\* chunk with no audio payload is skipped with the chunk, later descriptors
\* are ignored, and the default audio/L16;rate=24000 is used when no chunk
\* with audio supplies one.
C26_FirstDescriptorWithAudio ==
    (call # NoCall /\ call.locals.wav_data # None)
    => LET stream == call.env.stream
           supplying == {i \in DOMAIN stream :
                            has_audio(stream[i]) /\ stream[i].mime_type # None}
       IN  /\ EncodedWith(FirstDescriptor(stream, supplying))
           /\ call.locals.mime_type
              = (IF supplying = {} THEN None ELSE FirstDescriptor(stream, supplying))

\* A container was encoded at 8 bits from a stream whose later chunk supplies
\* a 24-bit descriptor.
C26_Witness ==
    /\ call # NoCall
    /\ call.env.stream = <<AudioC, AudioD>>
    /\ call.ret.success = TRUE
    /\ call.locals.wav_data.bits_per_sample = 8
    /\ call.locals.wav_data.sample_rate = 16000

\* C27: a chunk with no audio payload (no candidates, an empty candidate
\* list, no content, no parts, an empty part list, no inline data or empty
\* data) is skipped without error: the payload is the audio of the other
\* chunks, and the generation succeeds when another chunk carries audio.
C27_SilentChunksSkipped ==
    (/\ call # NoCall
     /\ call.env.fault = "none"
     /\ \E k \in DOMAIN call.env.stream : call.env.stream[k] \in SilentChunks
     /\ \E k \in DOMAIN call.env.stream : has_audio(call.env.stream[k]))
    => /\ ~call.raised
       /\ call.ret.success = TRUE
       /\ call.locals.audio_data = Payload(call.env.stream)

\* C28: a generation overwrites the audio and metadata files of an earlier
\* generation in the same folder only if the two have the same timestamp to
\* the second, the same voice and the same persona display name; generations
\* that differ in one of the three write files of different base names.
C28_OverwriteOnlyWhenSame ==
    [][(call' # NoCall /\ call'.ret.success = TRUE)
       => LET meta_file == <<call'.locals.output_folder,
                             call'.locals.base_name \o <<".txt">>>>
          IN  (meta_file \in DOMAIN metadata_txt /\ metadata_txt[meta_file] # <<>>)
              => LET earlier == read_metadata(metadata_txt[meta_file], NoMetadata)
                 IN  /\ earlier.timestamp = SubSeq(call'.locals.base_name, 1, 3)
                     /\ earlier.voice = call'.request.voice
                     /\ earlier.persona = call'.locals.persona_name]_vars

\* C29: whenever the active session id is set, it names a session whose
\* record exists: get_session on it does not return not-found.
C29_ActiveSessionExists ==
    _active_session_id # None
    => /\ session_file_exists(World, _active_session_id)
       /\ get_session(World, _active_session_id) # None
       /\ get_session(World, _active_session_id).id = _active_session_id

\* An older session was made the active one again, after files and favorites
\* were recorded.
C29_Witness ==
    /\ _active_session_id # None
    /\ reply.op = "set_active_session"
    /\ reply.ret # None
    /\ \E id \in DOMAIN session_json : second(id) > second(_active_session_id)
    /\ favorites_json # <<>>

\* The generated_files of a session, empty while it has no record.
FilesOf(records, id) == IF id \in DOMAIN records THEN records[id].generated_files ELSE <<>>

\* C30: every file name a generation appends to a session's generated_files
\* was written into the folder of that same session, and the result of the
\* generation reports that session's id, whatever session was made active
\* since the request or the batch began.
C30_FileInItsSession ==
    [][call' # NoCall
       => \A id \in DOMAIN session_json' :
             \A f \in Range(FilesOf(session_json', id)) :
                Count(f, FilesOf(session_json', id)) > Count(f, FilesOf(session_json, id))
                => /\ <<SESSIONS_DIR \o <<id>>, f>> \in disk'
                   /\ <<SESSIONS_DIR \o <<id>>, f>> \in call'.locals.wrote
                   /\ "session_id" \in DOMAIN call'.ret
                   /\ call'.ret.session_id = id]_vars

\* C31: in every reachable state no session's generated_files list and no
\* session's voices_tested list holds the same entry twice, whatever sequence
\* of session creation, single and batch generation and session updates led
\* to it.
C31_NoDuplicateEntries ==
    \A id \in DOMAIN session_json :
        /\ Distinct(session_json[id].generated_files)
        /\ Distinct(session_json[id].voices_tested)

\* The file name carries the voice it was generated for.
NamesVoice(path, voice) ==
    \E k \in 1..Len(path) :
        /\ k + Len(voice) - 1 <= Len(path)
        /\ SubSeq(path, k, k + Len(voice) - 1) = voice

\* C32: the list generate_batch returns is in input order.  Task i generates
\* for voices[i] and its outcome is kept as outcome i; the list the batch
\* returns holds at every index i the outcome of task i, so a successful
\* result i names the file of voices[i].
C32_ResultsInInputOrder ==
    [][/\ (batch # None /\ call'.task > 0)
          => /\ call'.task \in DOMAIN batch.voices
             /\ call'.request.voice = batch.voices[call'.task]
             /\ results'[call'.task].ret = call'.ret
             /\ \A j \in DOMAIN results : j # call'.task => results'[j] = results[j]
       /\ (batch # None /\ batch_ret' # None /\ ~batch_ret'.raised)
          => /\ DOMAIN batch_ret'.results = DOMAIN batch.voices
             /\ \A i \in DOMAIN batch.voices :
                   /\ batch_ret'.results[i] = results[i].ret
                   /\ batch_ret'.results[i].success = TRUE
                      => NamesVoice(batch_ret'.results[i].file_path, batch.voices[i])]_vars

\* A batch of both voices returned whose results differ from index to index:
\* one generation failed and later ones, for different voices, succeeded.
C32_Witness ==
    /\ batch_ret # None
    /\ ~batch_ret.raised
    /\ \E i, j, k \in DOMAIN batch_ret.results :
          /\ i < j /\ j < k
          /\ batch_ret.results[i].success = FALSE
          /\ batch_ret.results[j].success = TRUE
          /\ batch_ret.results[k].success = TRUE
          /\ batch_ret.voices[j] # batch_ret.voices[k]
          /\ batch_ret.results[j].file_path # batch_ret.results[k].file_path

====
